---- MODULE Spec2Model ----
(***************************************************************************)
(* Model of pkg/docker/loadbalancer.go: the LoadBalancer helper that       *)
(* manages the external load balancer container of a docker cluster.       *)
(*                                                                         *)
(* The LoadBalancer struct (name, image, container) is the program state.  *)
(* The container runtime is the environment: every call the code makes on  *)
(* it (create, list, inspect, write file, kill, delete) is recorded in the *)
(* call log of the operation and answers with an outcome drawn from the    *)
(* outcomes the runtime can produce.                                       *)
(***************************************************************************)
EXTENDS Integers, Sequences, FiniteSets, TLC

(***************************************************************************)
(* Bounds of the model.                                                    *)
(***************************************************************************)
\* number of creation requests counted in one run of Create calls
MaxRequests == 2
\* number of goroutines that call the operations of one LoadBalancer
NumCallers == 2

(***************************************************************************)
(* Values.                                                                 *)
(***************************************************************************)
\* the nil *types.Node
NIL == 0
\* the *types.Node of the container named containerName()
LB == 1

\* cluster.Name values handed to NewLoadBalancer
ClusterNames == {"", "demo"}

\* dockerCluster values handed to NewLoadBalancer: nil, no override, override
NoDockerCluster == [present |-> FALSE, LoadBalancerImage |-> ""]
DockerClusters ==
    { NoDockerCluster,
      [present |-> TRUE, LoadBalancerImage |-> ""],
      [present |-> TRUE, LoadBalancerImage |-> "example.org/haproxy:test"] }

\* names of the control plane containers the inventory may report, in the
\* order in which a sorted iteration over map keys visits them
NodeNames == <<"demo-control-plane-a", "demo-control-plane-b">>

\* answers of Node.IP when it does not fail ("" = no address yet)
Addresses == {"", "10.0.0.5"}

\* an answer of Node.IP: (ip, err)
IPResults == [ip : Addresses, err : {FALSE}] \cup {[ip |-> "", err |-> TRUE]}

\* the entry of a node whose address was not asked for
Unasked == [ip |-> "", err |-> TRUE]

\* constants of pkg/loadbalancer and of kind
DefaultImageRepository == "kindest"
Image == "haproxy"
DefaultImageTag == "v20210715-a6da3463"
ConfigPath == "/usr/local/etc/haproxy/haproxy.cfg"
ExternalLoadBalancerNodeRoleValue == "external-load-balancer"
ControlPlaneNodeRoleValue == "control-plane"
ControlPlanePort == 6443

\* the content of the config file of a freshly created container
DefaultConfig == <<"# default haproxy.cfg of the image">>
\* no container, hence no file
NoConfig == <<>>

(***************************************************************************)
(* The log of calls on the runtime.                                        *)
(***************************************************************************)
\* one call: op on the load balancer handle lb or on the node named node
Call(op, lb, node, args, content) ==
    [op |-> op, lb |-> lb, node |-> node, args |-> args, content |-> content]

CallCreate(name, image, clusterName, listenAddr, port) ==
    Call("create", NIL, "", <<name, image, clusterName, listenAddr, ToString(port)>>, <<>>)
CallList(clusterName, role) == Call("list", NIL, "", <<clusterName, role>>, <<>>)
CallNodeIP(node) == Call("address", NIL, node, <<>>, <<>>)
CallIP(lb) == Call("address", lb, "", <<>>, <<>>)
CallWriteFile(lb, path, content) == Call("writeFile", lb, "", <<path>>, content)
CallKill(lb, sig) == Call("signal", lb, "", <<sig>>, <<>>)
CallDelete(lb) == Call("delete", lb, "", <<>>, <<>>)

\* the calls of log whose op is op
RECURSIVE CallsOf(_, _)
CallsOf(log, op) ==
    IF log = <<>> THEN <<>>
    ELSE IF Head(log).op = op THEN <<Head(log)>> \o CallsOf(Tail(log), op)
    ELSE CallsOf(Tail(log), op)

(***************************************************************************)
(* Pure functions of loadbalancer.go.                                      *)
(***************************************************************************)
\* getLoadBalancerImage
getLoadBalancerImage(dockerCluster) ==
    IF dockerCluster.present /\ dockerCluster.LoadBalancerImage # ""
    THEN dockerCluster.LoadBalancerImage
    ELSE DefaultImageRepository \o "/" \o Image \o ":" \o DefaultImageTag

\* LoadBalancer.containerName
containerName(name) == name \o "-lb"

\* net.JoinHostPort for a host without a colon
JoinHostPort(host, port) == host \o ":" \o port

\* pkg/loadbalancer.Config: the document rendered from ConfigData, one server
\* line per entry of BackendServers, visited in sorted key order
RECURSIVE serverLines(_, _)
serverLines(i, servers) ==
    IF i > Len(NodeNames) THEN <<>>
    ELSE (IF NodeNames[i] \in DOMAIN servers
          THEN <<"  server " \o NodeNames[i] \o " " \o servers[NodeNames[i]] \o " check">>
          ELSE <<>>) \o serverLines(i + 1, servers)

Config(data) ==
    << "frontend control-plane",
       "  bind *:" \o ToString(data.ControlPlanePort),
       "  default_backend kube-apiservers",
       IF data.EnableStats THEN "frontend stats" ELSE "# no stats",
       "backend kube-apiservers" >>
    \o serverLines(1, data.BackendServers)

\* the empty map[string]string
EmptyMap == [n \in {} |-> ""]

\* m[k] = v on a Go map
MapSet(m, k, v) == [x \in DOMAIN m \cup {k} |-> IF x = k THEN v ELSE m[x]]

\* the elements of a sequence
Range(seq) == {seq[i] : i \in 1..Len(seq)}

(***************************************************************************)
(* What one operation did: the error it returned ("None" = nil), the value *)
(* it returned, the calls it issued on the runtime, in order, and the new  *)
(* value of s.container.                                                   *)
(***************************************************************************)
Outcome(err, value, calls, container) ==
    [err |-> err, value |-> value, calls |-> calls, container |-> container]

(***************************************************************************)
(* LoadBalancer.Create.  createRes is the answer (node, err) of            *)
(* lbCreator.CreateExternalLoadBalancerNode.                               *)
(***************************************************************************)
CreateAlways(s, createRes) ==
    LET calls == <<CallCreate(containerName(s.name), s.image, s.name, "0.0.0.0", 0)>>
    IN  IF createRes.err
        THEN Outcome("CreateFailed", "", calls, createRes.node)
        ELSE Outcome("None", "", calls, createRes.node)

Create(s, createRes) ==
    IF s.container = NIL
    THEN LET calls == <<CallCreate(containerName(s.name), s.image, s.name, "0.0.0.0", 0)>>
         IN  IF createRes.err
             THEN Outcome("CreateFailed", "", calls, createRes.node)
             ELSE Outcome("None", "", calls, createRes.node)
    ELSE Outcome("None", "", <<>>, s.container)

(***************************************************************************)
(* LoadBalancer.UpdateConfiguration.                                       *)
(***************************************************************************)
\* the loop over controlPlaneNodes: ipOf[n] is the answer of n.IP(ctx)
RECURSIVE collectBackendsSkipping(_, _, _, _)
collectBackendsSkipping(nodes, ipOf, backendServers, calls) ==
    IF nodes = <<>>
    THEN [err |-> FALSE, backendServers |-> backendServers, calls |-> calls]
    ELSE LET n == Head(nodes)
             called == Append(calls, CallNodeIP(n))
         IN  IF ipOf[n].err
             THEN collectBackendsSkipping(Tail(nodes), ipOf, backendServers, called)
             ELSE collectBackendsSkipping(Tail(nodes), ipOf,
                      MapSet(backendServers, n, JoinHostPort(ipOf[n].ip, "6443")), called)

RECURSIVE collectBackendsFirstOnly(_, _, _, _)
collectBackendsFirstOnly(nodes, ipOf, backendServers, calls) ==
    IF nodes = <<>>
    THEN [err |-> FALSE, backendServers |-> backendServers, calls |-> calls]
    ELSE LET n == Head(nodes)
             called == Append(calls, CallNodeIP(n))
         IN  IF ipOf[n].err
             THEN [err |-> TRUE, backendServers |-> backendServers, calls |-> called]
             ELSE [err |-> FALSE,
                   backendServers |-> MapSet(backendServers, n, JoinHostPort(ipOf[n].ip, "6443")),
                   calls |-> called]

RECURSIVE collectBackends(_, _, _, _)
collectBackends(nodes, ipOf, backendServers, calls) ==
    IF nodes = <<>>
    THEN [err |-> FALSE, backendServers |-> backendServers, calls |-> calls]
    ELSE LET n == Head(nodes)
             called == Append(calls, CallNodeIP(n))
         IN  IF ipOf[n].err
             THEN [err |-> TRUE, backendServers |-> backendServers, calls |-> called]
             ELSE collectBackends(Tail(nodes), ipOf,
                      MapSet(backendServers, n, JoinHostPort(ipOf[n].ip, "6443")), called)

\* s.container.WriteFile followed by s.container.Kill
pushConfigSignalFirst(s, loadBalancerConfig, writeErr, killErr, calls) ==
    LET signalled == Append(calls, CallKill(s.container, "SIGHUP"))
        written == Append(signalled, CallWriteFile(s.container, ConfigPath, loadBalancerConfig))
    IN  IF killErr THEN Outcome("SignalFailed", "", signalled, s.container)
        ELSE Outcome(IF writeErr THEN "WriteFailed" ELSE "None", "", written, s.container)

pushConfigAlwaysSignal(s, loadBalancerConfig, writeErr, killErr, calls) ==
    LET written == Append(calls, CallWriteFile(s.container, ConfigPath, loadBalancerConfig))
        signalled == Append(written, CallKill(s.container, "SIGHUP"))
    IN  Outcome(IF writeErr THEN "WriteFailed"
                ELSE IF killErr THEN "SignalFailed" ELSE "None", "", signalled, s.container)

pushConfigReverting(s, loadBalancerConfig, writeErr, killErr, calls) ==
    LET written == Append(calls, CallWriteFile(s.container, ConfigPath, loadBalancerConfig))
        signalled == Append(written, CallKill(s.container, "SIGHUP"))
        reverted == Append(signalled, CallWriteFile(s.container, ConfigPath, DefaultConfig))
    IN  IF writeErr
        THEN Outcome("WriteFailed", "", written, s.container)
        ELSE IF killErr THEN Outcome("SignalFailed", "", reverted, s.container)
        ELSE Outcome("None", "", signalled, s.container)

pushConfigAppendNewline(s, loadBalancerConfig, writeErr, killErr, calls) ==
    LET written == Append(calls, CallWriteFile(s.container, ConfigPath,
                                               Append(loadBalancerConfig, "")))
        signalled == Append(written, CallKill(s.container, "SIGHUP"))
    IN  IF writeErr
        THEN Outcome("WriteFailed", "", written, s.container)
        ELSE Outcome(IF killErr THEN "SignalFailed" ELSE "None", "", signalled, s.container)

pushConfig(s, loadBalancerConfig, writeErr, killErr, calls) ==
    LET written == Append(calls, CallWriteFile(s.container, ConfigPath, loadBalancerConfig))
        signalled == Append(written, CallKill(s.container, "SIGHUP"))
    IN  IF writeErr
        THEN Outcome("WriteFailed", "", written, s.container)
        ELSE Outcome(IF killErr THEN "SignalFailed" ELSE "None", "", signalled, s.container)

\* the body of UpdateConfiguration after the check of s.container
configureSkipEmpty(s, listRes, ipOf, renderErr, writeErr, killErr) ==
    LET listed == <<CallList(s.name, ControlPlaneNodeRoleValue)>>
        b == collectBackends(listRes.nodes, ipOf, EmptyMap, listed)
        loadBalancerConfig ==
            Config([ControlPlanePort |-> ControlPlanePort,
                    BackendServers |-> b.backendServers,
                    EnableStats |-> TRUE])
    IN  IF listRes.err THEN Outcome("ListFailed", "", listed, s.container)
        ELSE IF listRes.nodes = <<>> THEN Outcome("None", "", listed, s.container)
        ELSE IF b.err THEN Outcome("BackendResolutionFailed", "", b.calls, s.container)
        ELSE IF renderErr THEN Outcome("RenderFailed", "", b.calls, s.container)
        ELSE pushConfig(s, loadBalancerConfig, writeErr, killErr, b.calls)

configure(s, listRes, ipOf, renderErr, writeErr, killErr) ==
    LET listed == <<CallList(s.name, ControlPlaneNodeRoleValue)>>
        b == collectBackends(listRes.nodes, ipOf, EmptyMap, listed)
        loadBalancerConfig ==
            Config([ControlPlanePort |-> ControlPlanePort,
                    BackendServers |-> b.backendServers,
                    EnableStats |-> TRUE])
    IN  IF listRes.err THEN Outcome("ListFailed", "", listed, s.container)
        ELSE IF b.err THEN Outcome("BackendResolutionFailed", "", b.calls, s.container)
        ELSE IF renderErr THEN Outcome("RenderFailed", "", b.calls, s.container)
        ELSE pushConfig(s, loadBalancerConfig, writeErr, killErr, b.calls)

UpdateConfigurationUnchecked(s, listRes, ipOf, renderErr, writeErr, killErr) ==
    configure(s, listRes, ipOf, renderErr, writeErr, killErr)

UpdateConfiguration(s, listRes, ipOf, renderErr, writeErr, killErr) ==
    IF s.container = NIL
    THEN Outcome("NotProvisioned", "", <<>>, s.container)
    ELSE configure(s, listRes, ipOf, renderErr, writeErr, killErr)

(***************************************************************************)
(* LoadBalancer.IP.  ipRes is the answer (ip, err) of s.container.IP, or   *)
(* a panic of that method.                                                 *)
(***************************************************************************)
IPNoEmptyCheck(s, ipRes) ==
    LET calls == <<CallIP(s.container)>>
    IN  IF ipRes.panic THEN Outcome("Panic", "", calls, s.container)
        ELSE IF ipRes.err THEN Outcome("AdapterFailure", "", calls, s.container)
        ELSE Outcome("None", ipRes.ip, calls, s.container)

IPDropsHandle(s, ipRes) ==
    LET calls == <<CallIP(s.container)>>
    IN  IF ipRes.panic THEN Outcome("Panic", "", calls, s.container)
        ELSE IF ipRes.err THEN Outcome("AdapterFailure", "", calls, NIL)
        ELSE IF ipRes.ip = "" THEN Outcome("AddressUnavailable", "", calls, s.container)
        ELSE Outcome("None", ipRes.ip, calls, s.container)

IP(s, ipRes) ==
    LET calls == <<CallIP(s.container)>>
    IN  IF ipRes.panic THEN Outcome("Panic", "", calls, s.container)
        ELSE IF ipRes.err THEN Outcome("AdapterFailure", "", calls, s.container)
        ELSE IF ipRes.ip = "" THEN Outcome("AddressUnavailable", "", calls, s.container)
        ELSE Outcome("None", ipRes.ip, calls, s.container)

(***************************************************************************)
(* LoadBalancer.Delete.  deleteErr is the answer of s.container.Delete.    *)
(***************************************************************************)
DeleteClearsFirst(s, deleteErr) ==
    IF s.container # NIL
    THEN IF deleteErr
         THEN Outcome("DeleteFailed", "", <<CallDelete(s.container)>>, NIL)
         ELSE Outcome("None", "", <<CallDelete(s.container)>>, NIL)
    ELSE Outcome("None", "", <<>>, s.container)

DeleteUnchecked(s, deleteErr) ==
    IF deleteErr
    THEN Outcome("DeleteFailed", "", <<CallDelete(s.container)>>, s.container)
    ELSE Outcome("None", "", <<CallDelete(s.container)>>, NIL)

Delete(s, deleteErr) ==
    IF s.container # NIL
    THEN IF deleteErr
         THEN Outcome("DeleteFailed", "", <<CallDelete(s.container)>>, s.container)
         ELSE Outcome("None", "", <<CallDelete(s.container)>>, NIL)
    ELSE Outcome("None", "", <<>>, s.container)

(***************************************************************************)
(* NewLoadBalancer.  getRes is the answer (container, err) of getContainer.*)
(* The outcome carries the new LoadBalancer in value, or made = FALSE.     *)
(***************************************************************************)
Instance(name, image, container) ==
    [name |-> name, image |-> image, container |-> container]

NoInstance == Instance("", "", NIL)

Constructed(err, made, calls, instance) ==
    [err |-> err, made |-> made, calls |-> calls, instance |-> instance]

NewLoadBalancerUnvalidated(clusterName, dockerCluster, getRes) ==
    LET listed == <<CallList(clusterName, ExternalLoadBalancerNodeRoleValue)>>
    IN  IF getRes.err THEN Constructed("DiscoveryFailed", FALSE, listed, NoInstance)
        ELSE Constructed("None", TRUE, listed,
                 Instance(clusterName, getLoadBalancerImage(dockerCluster), getRes.container))

NewLoadBalancer(clusterName, dockerCluster, getRes) ==
    IF clusterName = ""
    THEN Constructed("InvalidArgument", FALSE, <<>>, NoInstance)
    ELSE LET listed == <<CallList(clusterName, ExternalLoadBalancerNodeRoleValue)>>
         IN  IF getRes.err THEN Constructed("DiscoveryFailed", FALSE, listed, NoInstance)
             ELSE Constructed("None", TRUE, listed,
                      Instance(clusterName, getLoadBalancerImage(dockerCluster), getRes.container))

(***************************************************************************)
(* The state.                                                              *)
(***************************************************************************)
VARIABLES
    constructed,  \* NewLoadBalancer has returned a LoadBalancer
    name,         \* LoadBalancer.name
    image,        \* LoadBalancer.image
    container,    \* LoadBalancer.container: NIL or the handle of a container
    units,        \* runtime: the load balancer containers that exist
    disk,         \* runtime: content of ConfigPath in the load balancer container
    active,       \* runtime: the config the load balancer process runs with
    last,         \* the last operation: what it was called on and what it did
    run,          \* the Create calls since the handle was last known absent
    callers       \* where each goroutine is in the operation it has called

vars == <<constructed, name, image, container, units, disk, active, last, run, callers>>

\* the goroutines
Callers == 1..NumCallers

\* a goroutine that is in no operation; node and err hold the answer of the
\* creator, cfg the rendered loadBalancerConfig
Idle == [pc |-> "idle", node |-> NIL, err |-> FALSE, cfg |-> <<>>]

self == Instance(name, image, container)

\* the answers of the runtime when it is not asked
NoFaults == [list |-> FALSE, render |-> FALSE, write |-> FALSE, kill |-> FALSE]
NoIPRes == [ip |-> "", err |-> FALSE, panic |-> FALSE]

\* the record of one operation: the operation, s.container when it was
\* called, what it returned and the calls it issued, and what the runtime
\* answered (nodes and ipOf: the list and the addresses of the control plane
\* nodes; f: the failures of list, render, write and kill; ipRes: the address
\* of the load balancer), and in arg the cluster name NewLoadBalancer was
\* given
Last(op, pre, err, value, calls, nodes, ipOf, f, ipRes) ==
    [op |-> op, pre |-> pre, err |-> err, value |-> value, calls |-> calls,
     nodes |-> nodes, ipOf |-> ipOf, f |-> f, ipRes |-> ipRes, arg |-> ""]

\* a run of Create calls on a handle that started absent: whether a call
\* has returned, and the creation requests the calls issued; clean as long
\* as every call returned nil
NoRun == [clean |-> TRUE, returned |-> FALSE, requests |-> 0]
\* a run that started attached or in which a Create failed is not counted
Uncounted == [clean |-> FALSE, returned |-> FALSE, requests |-> 0]

\* the sequences of distinct control plane nodes a list may return
NodeLists ==
    {<<>>} \cup {<<NodeNames[i]>> : i \in 1..Len(NodeNames)}
    \cup {<<NodeNames[p[1]], NodeNames[p[2]]>> :
              p \in {q \in (1..Len(NodeNames)) \X (1..Len(NodeNames)) : q[1] # q[2]}}

(***************************************************************************)
(* The runtime's side of the calls.  A file written without error replaces *)
(* the content of ConfigPath; a failed write leaves the old content; a     *)
(* delivered SIGHUP makes the process load the file.                       *)
(***************************************************************************)
RECURSIVE applyCalls(_, _, _, _)
applyCalls(calls, env, writeErr, killErr) ==
    IF calls = <<>> THEN env
    ELSE LET c == Head(calls)
             next ==
                 IF c.op = "writeFile"
                 THEN [env EXCEPT !.disk = IF writeErr THEN env.disk ELSE c.content]
                 ELSE IF c.op = "signal" /\ ~killErr
                 THEN [env EXCEPT !.active = env.disk]
                 ELSE env
         IN  applyCalls(Tail(calls), next, writeErr, killErr)

\* the answers of the runtime to the calls of one UpdateConfiguration
Faults == [list : BOOLEAN, render : BOOLEAN, write : BOOLEAN, kill : BOOLEAN]

\* the nodes whose address the calls asked for
Queried(calls) == {calls[i].node : i \in 1..Len(calls)} \ {""}

\* the list a call of listContainers returns
ListRes(sc) == [nodes |-> IF sc.f.list THEN <<>> ELSE sc.nodes, err |-> sc.f.list]

\* the runtime answers exactly the calls that are made
Answered(sc, o) ==
    /\ (sc.nodes # <<>> \/ sc.f.list => CallsOf(o.calls, "list") # <<>>)
    /\ (sc.f.list => sc.nodes = <<>>)
    /\ \A n \in Range(sc.nodes) \ Queried(o.calls) : sc.ipOf[n] = Unasked
    /\ (sc.f.render => o.err = "RenderFailed")
    /\ (sc.f.write => CallsOf(o.calls, "writeFile") # <<>>)
    /\ (sc.f.kill => CallsOf(o.calls, "signal") # <<>>)

\* the answers the runtime may give to one UpdateConfiguration
Scenarios ==
    UNION { [nodes : {nodes}, ipOf : [Range(nodes) -> IPResults], f : Faults] :
               nodes \in NodeLists }

\* the LoadBalancer values NewLoadBalancer and Create can produce
Instances ==
    { Instance(n, getLoadBalancerImage(d), c) :
         n \in ClusterNames \ {""}, d \in DockerClusters, c \in {NIL, LB} }

\* the runs of UpdateConfiguration on s: the answers of the runtime and
\* what UpdateConfiguration does with them
UpdateRuns ==
    [ s \in Instances |->
        { r \in { [sc |-> sc,
                   o |-> UpdateConfiguration(s, ListRes(sc), sc.ipOf,
                                             sc.f.render, sc.f.write, sc.f.kill)] :
                  sc \in Scenarios } :
          Answered(r.sc, r.o) } ]

Init ==
    /\ constructed = FALSE
    /\ name = ""
    /\ image = ""
    /\ container = NIL
    /\ \E existing \in BOOLEAN :
          /\ units = IF existing THEN {LB} ELSE {}
          /\ disk = IF existing THEN DefaultConfig ELSE NoConfig
          /\ active = IF existing THEN DefaultConfig ELSE NoConfig
    /\ last = Last("none", NIL, "None", "", <<>>, <<>>, EmptyMap, NoFaults, NoIPRes)
    /\ run = NoRun
    /\ callers = [t \in Callers |-> Idle]

\* NewLoadBalancer(ctx, cluster, dockerCluster)
NewLoadBalancerOp ==
    /\ ~constructed
    /\ \E clusterName \in ClusterNames, dockerCluster \in DockerClusters, getErr \in BOOLEAN :
          LET found == IF LB \in units THEN LB ELSE NIL
              getRes == [container |-> IF getErr THEN NIL ELSE found, err |-> getErr]
          IN  \E o \in {NewLoadBalancer(clusterName, dockerCluster, getRes)} :
                 \* getContainer answers only when it is called
                 /\ (getErr => o.calls # <<>>)
                 /\ constructed' = o.made
                 /\ name' = o.instance.name
                 /\ image' = o.instance.image
                 /\ container' = o.instance.container
                 /\ last' = [Last("NewLoadBalancer", NIL, o.err, "", o.calls, <<>>, EmptyMap,
                                  [NoFaults EXCEPT !.list = getErr], NoIPRes)
                               EXCEPT !.arg = clusterName]
                 /\ run' = IF o.instance.container # NIL THEN Uncounted ELSE NoRun
    /\ UNCHANGED <<units, disk, active, callers>>

\* s.Create(ctx)
CreateOp ==
    /\ constructed
    /\ run.requests < MaxRequests
    /\ \E createRes \in {[node |-> LB, err |-> FALSE], [node |-> NIL, err |-> TRUE],
                         [node |-> LB, err |-> TRUE]} :
       \E o \in {Create(self, createRes)} :
          LET asked == CallsOf(o.calls, "create") # <<>>
              made == asked /\ ~createRes.err
          IN  \* the creator answers only when it is called
              /\ (~asked => createRes = [node |-> LB, err |-> FALSE])
              /\ container' = o.container
              /\ units' = IF made THEN units \cup {LB} ELSE units
              /\ disk' = IF made THEN DefaultConfig ELSE disk
              /\ active' = IF made THEN DefaultConfig ELSE active
              /\ last' = Last("Create", container, o.err, o.value, o.calls, <<>>, EmptyMap,
                              NoFaults, NoIPRes)
              /\ run' = IF ~run.clean \/ o.err # "None" THEN Uncounted
                        ELSE [run EXCEPT !.returned = TRUE,
                                         !.requests = @ + Len(CallsOf(o.calls, "create"))]
    /\ UNCHANGED <<constructed, name, image, callers>>

\* s.UpdateConfiguration(ctx)
UpdateConfigurationOp ==
    /\ constructed
    /\ \E r \in UpdateRuns[self] :
       \E env \in {applyCalls(r.o.calls, [disk |-> disk, active |-> active],
                              r.sc.f.write, r.sc.f.kill)} :
          \* a container that does not exist takes no file and no signal
          /\ (CallsOf(r.o.calls, "writeFile") # <<>> /\ container \notin units => r.sc.f.write)
          /\ (CallsOf(r.o.calls, "signal") # <<>> /\ container \notin units => r.sc.f.kill)
          /\ container' = r.o.container
          /\ disk' = env.disk
          /\ active' = env.active
          /\ last' = Last("UpdateConfiguration", container, r.o.err, r.o.value, r.o.calls,
                          ListRes(r.sc).nodes, r.sc.ipOf, r.sc.f, NoIPRes)
    /\ UNCHANGED <<constructed, name, image, units, run, callers>>

\* s.IP(ctx)
IPOp ==
    /\ constructed
    /\ \E ipRes \in [ip : Addresses, err : BOOLEAN, panic : BOOLEAN] :
       \E o \in {IP(self, ipRes)} :
          \* an answer is an address, an error or a panic
          /\ (ipRes.err \/ ipRes.panic => ipRes.ip = "")
          /\ (ipRes.panic => ~ipRes.err)
          \* only a nil receiver can make Node.IP panic
          /\ (ipRes.panic => container = NIL)
          \* a container that does not exist has no address to report
          /\ (container # NIL /\ container \notin units => ipRes.err)
          /\ container' = o.container
          /\ last' = Last("IP", container, o.err, o.value, o.calls, <<>>, EmptyMap,
                          NoFaults, ipRes)
    /\ UNCHANGED <<constructed, name, image, units, disk, active, run, callers>>

\* s.Delete(ctx)
DeleteOp ==
    /\ constructed
    /\ \E deleteErr \in BOOLEAN :
       \E o \in {Delete(self, deleteErr)} :
          LET asked == CallsOf(o.calls, "delete") # <<>>
              left == IF asked /\ ~deleteErr THEN units \ {container} ELSE units
          IN  \* the runtime answers only when it is called
              /\ (deleteErr => asked)
              /\ container' = o.container
              /\ units' = left
              /\ disk' = IF left = {} THEN NoConfig ELSE disk
              /\ active' = IF left = {} THEN NoConfig ELSE active
              /\ last' = Last("Delete", container, o.err, o.value, o.calls, <<>>, EmptyMap,
                              NoFaults, NoIPRes)
              /\ run' = IF o.container = NIL THEN NoRun ELSE run
    /\ UNCHANGED <<constructed, name, image, callers>>

Next ==
    \/ NewLoadBalancerOp
    \/ CreateOp
    \/ UpdateConfigurationOp
    \/ IPOp
    \/ DeleteOp

Spec == Init /\ [][Next]_vars

(***************************************************************************)
(* The operations called from several goroutines on one LoadBalancer, as   *)
(* the reconciler may do.  The code takes no lock, so the steps of the     *)
(* operations interleave: one step per read or write of s.container and    *)
(* per call on the runtime.  A read of s.container that races with a write *)
(* sees the value before or after the write.                               *)
(***************************************************************************)
InitConc ==
    /\ constructed = TRUE
    /\ name = "demo"
    /\ image = getLoadBalancerImage(NoDockerCluster)
    /\ \E existing \in BOOLEAN :
          /\ container = IF existing THEN LB ELSE NIL
          /\ units = IF existing THEN {LB} ELSE {}
          /\ disk = IF existing THEN DefaultConfig ELSE NoConfig
          /\ active = IF existing THEN DefaultConfig ELSE NoConfig
    /\ last = Last("none", NIL, "None", "", <<>>, <<>>, EmptyMap, NoFaults, NoIPRes)
    /\ run = NoRun
    /\ callers = [t \in Callers |-> Idle]

\* the answers of listContainers while goroutines interleave: no control
\* plane node, or one
FewNodeLists == {<<>>, <<NodeNames[1]>>}

\* callers with the goroutine t moved to c
Moved(t, c) == [callers EXCEPT ![t] = c]

\* the goroutine t returns from its operation
Returned(t) == Moved(t, Idle)

\* the goroutine t is in no operation and calls Create, UpdateConfiguration or Delete
CallOperation(t) ==
    /\ callers[t].pc = "idle"
    /\ \E first \in {"CreateCheck", "UpdateCheck", "DeleteCheck"} :
          callers' = Moved(t, [Idle EXCEPT !.pc = first])
    /\ UNCHANGED <<constructed, name, image, container, units, disk, active, last, run>>

\* Create, line 105: if s.container == nil
CreateCheck(t) ==
    /\ callers[t].pc = "CreateCheck"
    /\ callers' = IF container = NIL THEN Moved(t, [Idle EXCEPT !.pc = "CreateCall"])
                  ELSE Returned(t)
    /\ UNCHANGED <<constructed, name, image, container, units, disk, active, last, run>>

\* Create, lines 108-115: the call of CreateExternalLoadBalancerNode
CreateCall(t) ==
    /\ callers[t].pc = "CreateCall"
    /\ \E createRes \in {[node |-> LB, err |-> FALSE], [node |-> NIL, err |-> TRUE],
                         [node |-> LB, err |-> TRUE]} :
          /\ callers' = Moved(t, [Idle EXCEPT !.pc = "CreateAssign",
                                              !.node = createRes.node,
                                              !.err = createRes.err])
          /\ units' = IF createRes.err THEN units ELSE units \cup {LB}
          /\ disk' = IF createRes.err THEN disk ELSE DefaultConfig
          /\ active' = IF createRes.err THEN active ELSE DefaultConfig
    /\ UNCHANGED <<constructed, name, image, container, last, run>>

\* Create, lines 108 and 116-121: s.container is assigned, err or nil returned
CreateAssign(t) ==
    /\ callers[t].pc = "CreateAssign"
    /\ container' = callers[t].node
    /\ callers' = Returned(t)
    /\ UNCHANGED <<constructed, name, image, units, disk, active, last, run>>

\* UpdateConfiguration, lines 128-130: if s.container == nil
UpdateCheck(t) ==
    /\ callers[t].pc = "UpdateCheck"
    /\ callers' = IF container = NIL THEN Returned(t)
                  ELSE Moved(t, [Idle EXCEPT !.pc = "UpdateRender"])
    /\ UNCHANGED <<constructed, name, image, container, units, disk, active, last, run>>

\* UpdateConfiguration, lines 133-160: list, resolve and render
UpdateRender(t) ==
    /\ callers[t].pc = "UpdateRender"
    /\ \E nodes \in FewNodeLists, listErr \in BOOLEAN, renderErr \in BOOLEAN :
       \E ipOf \in [Range(nodes) -> IPResults] :
          LET b == collectBackends(nodes, ipOf, EmptyMap, <<>>)
              loadBalancerConfig ==
                  Config([ControlPlanePort |-> ControlPlanePort,
                          BackendServers |-> b.backendServers,
                          EnableStats |-> TRUE])
          IN  callers' = IF listErr \/ b.err \/ renderErr THEN Returned(t)
                         ELSE Moved(t, [Idle EXCEPT !.pc = "UpdateWrite",
                                                    !.cfg = loadBalancerConfig])
    /\ UNCHANGED <<constructed, name, image, container, units, disk, active, last, run>>

\* UpdateConfiguration, lines 163-165: s.container.WriteFile
UpdateWrite(t) ==
    /\ callers[t].pc = "UpdateWrite"
    /\ \E writeErr \in BOOLEAN :
          \* a container that does not exist, or a nil one, takes no file
          /\ (container \notin units => writeErr)
          /\ disk' = IF writeErr THEN disk ELSE callers[t].cfg
          /\ callers' = IF writeErr THEN Returned(t)
                        ELSE Moved(t, [callers[t] EXCEPT !.pc = "UpdateSignal"])
    /\ UNCHANGED <<constructed, name, image, container, units, active, last, run>>

\* UpdateConfiguration, line 167: s.container.Kill
UpdateSignal(t) ==
    /\ callers[t].pc = "UpdateSignal"
    /\ \E killErr \in BOOLEAN :
          \* a container that does not exist, or a nil one, takes no signal
          /\ (container \notin units => killErr)
          /\ active' = IF killErr THEN active ELSE disk
          /\ callers' = Returned(t)
    /\ UNCHANGED <<constructed, name, image, container, units, disk, last, run>>

\* Delete, line 187: if s.container != nil
DeleteCheck(t) ==
    /\ callers[t].pc = "DeleteCheck"
    /\ callers' = IF container # NIL THEN Moved(t, [Idle EXCEPT !.pc = "DeleteCall"])
                  ELSE Returned(t)
    /\ UNCHANGED <<constructed, name, image, container, units, disk, active, last, run>>

\* Delete, lines 189-191: s.container.Delete
DeleteCall(t) ==
    /\ callers[t].pc = "DeleteCall"
    /\ \E deleteErr \in BOOLEAN :
          LET left == IF deleteErr THEN units ELSE units \ {container}
          IN  \* there is nothing to delete through a nil handle
              /\ (container = NIL => deleteErr)
              /\ units' = left
              /\ disk' = IF left = {} THEN NoConfig ELSE disk
              /\ active' = IF left = {} THEN NoConfig ELSE active
              /\ callers' = IF deleteErr THEN Returned(t)
                            ELSE Moved(t, [Idle EXCEPT !.pc = "DeleteClear"])
    /\ UNCHANGED <<constructed, name, image, container, last, run>>

\* Delete, line 192: s.container = nil
DeleteClear(t) ==
    /\ callers[t].pc = "DeleteClear"
    /\ container' = NIL
    /\ callers' = Returned(t)
    /\ UNCHANGED <<constructed, name, image, units, disk, active, last, run>>

NextConc ==
    \E t \in Callers :
       \/ CallOperation(t)
       \/ CreateCheck(t)
       \/ CreateCall(t)
       \/ CreateAssign(t)
       \/ UpdateCheck(t)
       \/ UpdateRender(t)
       \/ UpdateWrite(t)
       \/ UpdateSignal(t)
       \/ DeleteCheck(t)
       \/ DeleteCall(t)
       \/ DeleteClear(t)

SpecConc == InitConc /\ [][NextConc]_vars

(***************************************************************************)
(* Properties.                                                             *)
(***************************************************************************)
\* the calls on the runtime of the last operation, by kind
Writes == CallsOf(last.calls, "writeFile")
Signals == CallsOf(last.calls, "signal")

\* the position in the call log of the first call whose op is op (0: none)
RECURSIVE IndexOf(_, _, _)
IndexOf(log, op, i) ==
    IF i > Len(log) THEN 0
    ELSE IF log[i].op = op THEN i
    ELSE IndexOf(log, op, i + 1)

\* C1: Create is idempotent.  In a run of one or more Create calls that all
\* returned nil, on a handle that started absent, exactly one creation
\* request was issued, however many calls the run has; and a Create called
\* with a container attached issues no call on the runtime and returns nil.
C1_CreateIdempotent ==
    /\ (run.clean /\ run.returned => run.requests = 1)
    /\ (last.op = "Create" /\ last.pre # NIL => last.calls = <<>> /\ last.err = "None")

\* a second Create has returned nil on an instance constructed without a container
C1_Witness ==
    /\ run.clean /\ run.returned /\ run.requests = 1
    /\ last.op = "Create" /\ last.pre # NIL /\ last.err = "None"

\* C2: UpdateConfiguration on an instance without a container fails with the
\* not-provisioned error and issues no call on the runtime; the handle stays
\* absent.
C2_UpdateAbsentFails ==
    last.op = "UpdateConfiguration" /\ last.pre = NIL
        => last.err = "NotProvisioned" /\ last.calls = <<>> /\ container = NIL

C2_Witness == last.op = "UpdateConfiguration" /\ last.pre = NIL

\* C3: when the address lookup of any control plane node fails, whatever its
\* position in the list, UpdateConfiguration returns an error and issues
\* neither a writeFile nor a signal.
C3_ResolutionFailureAborts ==
    last.op = "UpdateConfiguration"
    /\ (\E n \in Queried(last.calls) : last.ipOf[n].err)
        => last.err # "None" /\ Writes = <<>> /\ Signals = <<>>

\* the lookup of the second of two nodes failed after the first succeeded
C3_Witness ==
    /\ last.op = "UpdateConfiguration" /\ Len(last.nodes) = 2
    /\ Queried(last.calls) = Range(last.nodes)
    /\ ~last.ipOf[last.nodes[1]].err /\ last.ipOf[last.nodes[2]].err

\* C4: the reload signal is issued only after the writeFile of the same call
\* succeeded.  A failing writeFile returns an error without a signal; a call
\* that returns nil issued exactly one writeFile and then exactly one SIGHUP,
\* both on the attached container, and both succeeded.
C4_SignalOnlyAfterWrite ==
    last.op = "UpdateConfiguration" =>
        /\ Len(Writes) <= 1 /\ Len(Signals) <= 1
        /\ \A i \in 1..Len(last.calls) :
              last.calls[i].op \in {"writeFile", "signal"} => last.calls[i].lb = last.pre
        /\ (Signals # <<>> =>
               /\ Writes # <<>> /\ ~last.f.write
               /\ IndexOf(last.calls, "writeFile", 1) < IndexOf(last.calls, "signal", 1)
               /\ Signals[1].args = <<"SIGHUP">>)
        /\ (last.f.write => last.err # "None" /\ Signals = <<>>)
        /\ (last.err = "None" =>
               Len(Writes) = 1 /\ Len(Signals) = 1 /\ ~last.f.write /\ ~last.f.kill)

\* a writeFile failed in the last UpdateConfiguration
C4_Witness == last.op = "UpdateConfiguration" /\ Writes # <<>> /\ last.f.write

\* C5: Delete clears the handle only once the runtime confirmed the deletion.
\* A Delete whose deletion request fails returns the error and leaves the
\* handle attached, and a Delete that follows it issues the deletion
\* request again, for the same container.
C5_DeleteKeepsHandleOnFailure ==
    [][ /\ (last'.op = "Delete" /\ last'.err # "None" =>
              /\ container # NIL /\ container' = container /\ units' = units
              /\ last'.calls = <<CallDelete(container)>>)
        /\ (last'.op = "Delete" /\ container # NIL /\ container' = NIL =>
              last'.err = "None" /\ last'.calls = <<CallDelete(container)>>)
        /\ (last.op = "Delete" /\ last.err # "None" /\ last'.op = "Delete" =>
              last'.calls = <<CallDelete(last.pre)>>) ]_vars

\* a Delete has failed and the container is still attached
C5_Witness == last.op = "Delete" /\ last.err # "None" /\ container = last.pre /\ container # NIL

\* C6: IP on an instance without a container returns the not-provisioned
\* error, without a call on the runtime through the absent handle.
C6_IPAbsentReported ==
    last.op = "IP" /\ last.pre = NIL => last.err = "NotProvisioned" /\ last.calls = <<>>

\* C7: IP on an instance with a container never returns an empty address
\* with a nil error.  An empty address reported without error gives the
\* address-unavailable error, which is neither the not-provisioned error nor
\* the error of a failed lookup; a non-empty address is returned as it is.
C7_IPNeverEmpty ==
    last.op = "IP" /\ last.pre # NIL =>
        /\ (last.err = "None" => last.value # "")
        /\ (~last.ipRes.err /\ last.ipRes.ip = "" => last.err = "AddressUnavailable")
        /\ (~last.ipRes.err /\ last.ipRes.ip # "" =>
               last.err = "None" /\ last.value = last.ipRes.ip)
        /\ (last.ipRes.err => last.err = "AdapterFailure")
        /\ last.err \in {"None", "AddressUnavailable", "AdapterFailure"}

\* the runtime reported an empty address, without error, for the attached container
C7_Witness ==
    last.op = "IP" /\ last.pre # NIL /\ ~last.ipRes.err /\ last.ipRes.ip = ""

\* the config rendered from the map with one entry for every listed node:
\* the address the node reported, joined with port 6443
CompleteConfig ==
    Config([ControlPlanePort |-> 6443,
            BackendServers |-> [n \in Range(last.nodes) |-> last.ipOf[n].ip \o ":6443"],
            EnableStats |-> TRUE])

\* C8: every config written by UpdateConfiguration is rendered from the
\* complete set of backends of that call: one entry for each node the list
\* of that call returned, with the address that node reported joined with
\* port 6443, and no other entry.
C8_ConfigFromCompleteBackendSet ==
    last.op = "UpdateConfiguration" /\ Writes # <<>> =>
        /\ Queried(last.calls) = Range(last.nodes)
        /\ \A n \in Range(last.nodes) : ~last.ipOf[n].err
        /\ \A i \in 1..Len(Writes) : Writes[i].content = CompleteConfig

\* a config for two nodes was written over a config that had other backends
C8_Witness ==
    /\ last.op = "UpdateConfiguration" /\ Writes # <<>> /\ ~last.f.write
    /\ Len(last.nodes) = 2
    /\ last.ipOf[last.nodes[1]].ip # last.ipOf[last.nodes[2]].ip

\* C9: when a control plane node has no address (its lookup fails or answers
\* the empty string), UpdateConfiguration fails with the
\* backend-resolution error and writes and signals nothing.
C9_EmptyAddressAborts ==
    last.op = "UpdateConfiguration"
    /\ (\E n \in Queried(last.calls) : last.ipOf[n].err \/ last.ipOf[n].ip = "")
        => last.err = "BackendResolutionFailed" /\ Writes = <<>> /\ Signals = <<>>

\* C10: an UpdateConfiguration that returns an error leaves the config the
\* load balancer runs with as it was before the call.
C10_FailedUpdateKeepsActiveConfig ==
    [][last'.op = "UpdateConfiguration" /\ last'.err # "None" => active' = active]_vars

\* a signal failed after a write: the file changed, the running config did not
C10_Witness ==
    /\ last.op = "UpdateConfiguration" /\ last.err = "SignalFailed"
    /\ Writes # <<>> /\ disk = Writes[1].content /\ active # disk

\* C11: when the signal fails after the write succeeded, UpdateConfiguration
\* returns an error, the written config stays in the file (the write is the
\* only writeFile of the call and the signal its last call) and the running
\* config is unchanged; an UpdateConfiguration that then returns nil has
\* signalled again, and the load balancer runs with the config rendered from
\* the backends of that call.
C11_SignalFailureLeavesConfigOnDisk ==
    [][ /\ (last'.op = "UpdateConfiguration" /\ last'.f.kill =>
              /\ last'.err # "None"
              /\ Len(Writes') = 1 /\ ~last'.f.write
              /\ disk' = Writes'[1].content
              /\ last'.calls[Len(last'.calls)].op = "signal"
              /\ active' = active)
        /\ (last'.op = "UpdateConfiguration" /\ last'.err = "None" =>
              /\ Len(Signals') = 1 /\ ~last'.f.kill
              /\ active' = CompleteConfig' /\ disk' = active') ]_vars

\* a signal failed and left in the file a config with a backend that the
\* load balancer does not run with
C11_Witness ==
    /\ last.op = "UpdateConfiguration" /\ last.f.kill /\ ~last.f.write
    /\ last.nodes # <<>> /\ disk = CompleteConfig /\ active # disk

\* C12: the content UpdateConfiguration hands to writeFile is the document
\* Config returned for the backends of that call, port 6443 and stats
\* enabled, unchanged; and it is written to ConfigPath.
C12_WrittenIsRendered ==
    last.op = "UpdateConfiguration" =>
        \A i \in 1..Len(Writes) :
           /\ Writes[i].args = <<ConfigPath>>
           /\ Writes[i].content =
                 Config([ControlPlanePort |-> 6443,
                         BackendServers |->
                             [n \in Range(last.nodes) |-> JoinHostPort(last.ipOf[n].ip, "6443")],
                         EnableStats |-> TRUE])
           /\ Len(Writes[i].content) = 5 + Len(last.nodes)

\* the config of two backends that both have an address was written
C12_Witness ==
    /\ last.op = "UpdateConfiguration" /\ Len(Writes) = 1 /\ ~last.f.write
    /\ Len(last.nodes) = 2
    /\ \A n \in Range(last.nodes) : last.ipOf[n].ip = "10.0.0.5"

\* C14: Delete without a container issues no call on the runtime and returns
\* nil; a Delete that returned nil leaves no container attached, so that a
\* Delete after it issues no deletion request; and a Create called without
\* a container, as after such a Delete, issues one creation request for the
\* container named "<cluster>-lb" and, when it returns nil, leaves a
\* container attached that exists.
C14_DeleteNoOpAndRecreate ==
    [][ /\ (last'.op = "Delete" /\ container = NIL =>
              last'.calls = <<>> /\ last'.err = "None" /\ container' = NIL)
        /\ (last'.op = "Delete" /\ last'.err = "None" => container' = NIL)
        /\ (last.op = "Delete" /\ last.err = "None" /\ last'.op = "Delete" =>
              last'.calls = <<>> /\ last'.err = "None")
        /\ (last'.op = "Create" /\ container = NIL =>
              /\ Len(last'.calls) = 1
              /\ last'.calls[1].op = "create"
              /\ last'.calls[1].args = <<name \o "-lb", image, name, "0.0.0.0", "0">>
              /\ (last'.err = "None" => container' # NIL /\ container' \in units')) ]_vars

\* a Delete was called without a container, the container being gone
C14_Witness ==
    last.op = "Delete" /\ last.pre = NIL /\ last.calls = <<>> /\ units = {}

\* C15: NewLoadBalancer validates the cluster name first and creates
\* nothing.  With an empty name it fails before any list and returns no
\* LoadBalancer; otherwise it issues one list filtered by the cluster name
\* and the external-load-balancer role and no creation request, fails when
\* the list fails, and else returns a LoadBalancer whose container is
\* attached exactly when the list found one.
C15_ConstructValidatesAndDiscovers ==
    last.op = "NewLoadBalancer" =>
        /\ CallsOf(last.calls, "create") = <<>>
        /\ (last.arg = "" =>
               last.err = "InvalidArgument" /\ last.calls = <<>> /\ ~constructed)
        /\ (last.arg # "" =>
               /\ last.calls = <<CallList(last.arg, "external-load-balancer")>>
               /\ (last.f.list => last.err # "None" /\ ~constructed)
               /\ (~last.f.list =>
                      /\ last.err = "None" /\ constructed /\ name = last.arg
                      /\ (container # NIL <=> units # {})))

\* NewLoadBalancer was called with an empty cluster name
C15_Witness == last.op = "NewLoadBalancer" /\ last.arg = "" /\ ~constructed

\* C16: an operation whose call on the runtime fails, as it does when the
\* context is cancelled while the call is in flight, returns an error and
\* leaves the container attached exactly when it exists, given that this
\* was so before the operation.
C16_FailedCallKeepsHandleConsistent ==
    [][ /\ last'.op \in {"Create", "UpdateConfiguration", "IP", "Delete"}
        /\ last'.calls # <<>>
        /\ last'.err # "None"
        /\ (container # NIL <=> container \in units)
        => (container' # NIL <=> container' \in units') ]_vars

\* C17: a Create whose creation request fails returns the error and leaves
\* no container attached, whatever node the creator returned with the error.
C17_FailedCreateStaysAbsent ==
    last.op = "Create" /\ last.err # "None" => container = NIL

\* C19: UpdateConfiguration and IP leave the container, the name and the
\* image as they are; a container is attached only by Create and detached
\* only by a Delete that returns nil; a container that stays attached stays
\* the same container; and no operation changes the name or the image.
C19_HandleChangesOnlyInCreateAndDelete ==
    [][ constructed =>
          /\ (last'.op \in {"UpdateConfiguration", "IP"} =>
                 container' = container /\ name' = name /\ image' = image)
          /\ (container = NIL /\ container' # NIL => last'.op = "Create")
          /\ (container # NIL /\ container' = NIL =>
                 last'.op = "Delete" /\ last'.err = "None")
          /\ (container # NIL /\ container' # NIL => container' = container)
          /\ name' = name /\ image' = image ]_vars

\* the lookup of the address of the attached container failed in IP
C19_Witness ==
    /\ last.op = "IP" /\ last.pre # NIL /\ last.ipRes.err
    /\ container = last.pre /\ name = "demo"

\* C20: an UpdateConfiguration on an attached container whose list returns
\* no control plane node, and whose render, write and signal succeed,
\* returns nil: it writes the config rendered from the empty map and sends
\* the reload signal, so that the load balancer runs without backends.
C20_EmptyNodeListSucceeds ==
    last.op = "UpdateConfiguration" /\ last.pre # NIL /\ last.nodes = <<>>
    /\ last.f = NoFaults =>
        /\ last.err = "None"
        /\ last.calls =
              << CallList(name, "control-plane"),
                 CallWriteFile(last.pre, ConfigPath,
                               Config([ControlPlanePort |-> 6443,
                                       BackendServers |-> EmptyMap,
                                       EnableStats |-> TRUE])),
                 CallKill(last.pre, "SIGHUP") >>
        /\ Len(Writes[1].content) = 5
        /\ disk = Writes[1].content /\ active = disk

\* an update for an empty list of nodes was written and signalled
C20_Witness ==
    /\ last.op = "UpdateConfiguration" /\ last.pre # NIL /\ last.nodes = <<>>
    /\ last.err = "None" /\ Len(Signals) = 1

\* the goroutines whose creation request has been made and whose result is
\* not yet stored in s.container
Provisioning == {t \in Callers : callers[t].pc = "CreateAssign"}

\* C13: concurrent Create calls never both attempt provisioning: at most one
\* Create has made a creation request that it has not yet attached, and at
\* most one load balancer container exists.
C13_OneProvisioningAtATime ==
    Cardinality(Provisioning) <= 1 /\ Cardinality(units) <= 1

\* the goroutines that have passed the check of s.container in
\* UpdateConfiguration and have not returned
Updating == {t \in Callers :
                callers[t].pc \in {"UpdateRender", "UpdateWrite", "UpdateSignal"}}

\* C18: while an UpdateConfiguration is between its check of s.container and
\* its return, no step of another call changes s.container or removes the
\* container it refers to.
C18_HandleStableDuringUpdate ==
    [][ \A t \in Updating \cap Updating' :
           /\ container' = container
           /\ (container \in units => container' \in units') ]_vars

====
